---- MODULE Spec2Model ----
(***************************************************************************)
(* The reaper compiler (src/src/compiler.rs) and virtual machine           *)
(* (src/src/vm.rs): a single-pass bytecode compiler for a small C-like     *)
(* language and the stack machine that runs its output.                    *)
(*                                                                         *)
(* Indices are zero-based as in the Rust source: instruction i of a Vec is *)
(* element i + 1 of the TLA+ sequence that models it.                      *)
(***************************************************************************)
EXTENDS Integers, Sequences, FiniteSets, TLC

(***************************************************************************)
(* Bounds of the model.                                                    *)
(***************************************************************************)
\* The fib programs are run for the arguments 0..MaxFib.
MaxFib == 4
\* Number literals of the generated programs range over 0..MaxLit.
MaxLit == 2

(***************************************************************************)
(* Program constants.                                                      *)
(***************************************************************************)
\* compiler.rs:12  pops: [usize; 1024]
PopsLen == 1024
\* compiler.rs:101  the placeholder operand of a jump that is patched later
Placeholder == 65535

(***************************************************************************)
(* vm.rs: Object, the values of the operand stack.  Every value is a       *)
(* record of the same three fields: the variant t, the payload n of a      *)
(* Number (an integer-valued f64) or of a Bool (0 or 1), and the           *)
(* characters s of a String.                                               *)
(***************************************************************************)
ObjNumber(n) == [t |-> "Number", n |-> n, s |-> <<>>]
ObjBool(b) == [t |-> "Bool", n |-> IF b THEN 1 ELSE 0, s |-> <<>>]
ObjString(s) == [t |-> "String", n |-> 0, s |-> s]
ObjNull == [t |-> "Null", n |-> 0, s |-> <<>>]
\* An f64 that is no integer (a quotient that does not divide, an infinity):
\* the model keeps no more of it than that it is a Number.
ObjInexact == [t |-> "Number", n |-> 0, s |-> <<"f64">>]
\* The f64 NaN, the quotient 0 / 0.
ObjNaN == [t |-> "Number", n |-> 0, s |-> <<"NaN">>]

IsInexact(o) == o.t = "Number" /\ o.s # <<>>
IsNaN(o) == o = ObjNaN

(***************************************************************************)
(* compiler.rs: Opcode.  a and b are the numeric operands (Const's number, *)
(* a jump's address, a slot, Invoke's argument count and entry), s the     *)
(* string of the VM's Str.                                                 *)
(***************************************************************************)
Op(name, a, b) == [op |-> name, a |-> a, b |-> b, s |-> <<>>]
OpStr(s) == [op |-> "Str", a |-> 0, b |-> 0, s |-> s]
Const(n) == Op("Const", n, 0)
Jmp(addr) == Op("Jmp", addr, 0)
Jz(addr) == Op("Jz", addr, 0)
Invoke(n, entry) == Op("Invoke", n, entry)
Deepget(idx) == Op("Deepget", idx, 0)
Deepset(idx) == Op("Deepset", idx, 0)
Nullary(name) == Op(name, 0, 0)

(***************************************************************************)
(* parser.rs: the AST the compiler consumes.                               *)
(***************************************************************************)
LitNum(n) == [k |-> "Literal", lit |-> "Num", n |-> n]
LitBool(b) == [k |-> "Literal", lit |-> "Bool", n |-> IF b THEN 1 ELSE 0]
LitNull == [k |-> "Literal", lit |-> "Null", n |-> 0]
Variable(name) == [k |-> "Variable", value |-> name]
Binary(kind, lhs, rhs) == [k |-> "Binary", kind |-> kind, lhs |-> lhs, rhs |-> rhs]
Call(name, arguments) == [k |-> "Call", variable |-> name, arguments |-> arguments]
Assign(lhs, rhs) == [k |-> "Assign", lhs |-> lhs, rhs |-> rhs]

Dummy == [k |-> "Dummy"]
PrintS(e) == [k |-> "Print", expression |-> e]
BlockS(body) == [k |-> "Block", body |-> body]
FnS(name, arguments, body) ==
    [k |-> "Fn", name |-> name, arguments |-> arguments, body |-> BlockS(body)]
ExprS(e) == [k |-> "Expression", expression |-> e]
ReturnS(e) == [k |-> "Return", expression |-> e]
IfS(c, a, b) == [k |-> "If", condition |-> c, if_branch |-> a, else_branch |-> b]

(***************************************************************************)
(* compiler.rs: Compiler.  panicked is set by an unwrap() of None or an    *)
(* unimplemented!(): the compilation is aborted and nothing is returned.   *)
(***************************************************************************)
Compiler_new ==
    [bytecode |-> <<>>,
     functions |-> <<>>,
     locals |-> <<>>,
     depth |-> 0,
     pops |-> [i \in 0 .. PopsLen - 1 |-> 0],
     panicked |-> FALSE]

Panic(c) == [c EXCEPT !.panicked = TRUE]

\* emit_bytes: append the opcodes; idx is the index of the first of them.
emit_bytes(c, opcodes) ==
    LET pushed == [c EXCEPT !.bytecode = @ \o opcodes]
    IN  [c |-> pushed, idx |-> Len(pushed.bytecode) - Len(opcodes)]

emit_stack_cleanup(c) ==
    IF c.depth >= PopsLen
    THEN Panic(c)
    ELSE LET popcount == c.pops[c.depth]
         IN  [c EXCEPT !.bytecode = @ \o [i \in 1 .. popcount |-> Nullary("Pop")]]

\* resolve_local: the position of the first local of that name, None if absent.
None == -1
resolve_local(c, name) ==
    IF \E i \in 1 .. Len(c.locals) : c.locals[i] = name
    THEN (CHOOSE i \in 1 .. Len(c.locals) :
              /\ c.locals[i] = name
              /\ \A j \in 1 .. i - 1 : c.locals[j] # name) - 1
    ELSE None

\* functions: HashMap<String, usize>, kept as a sequence of <<name, index>>
\* pairs in which a later insert of a name replaces the earlier one.
functions_insert(functions, name, idx) ==
    SelectSeq(functions, LAMBDA e : e[1] # name) \o << <<name, idx>> >>
\* A variant of the lookup that yields index 0 for an unknown name.
functions_get_default(functions, name) ==
    IF \E i \in 1 .. Len(functions) : functions[i][1] = name
    THEN functions[CHOOSE i \in 1 .. Len(functions) : functions[i][1] = name][2]
    ELSE 0
functions_get(functions, name) ==
    IF \E i \in 1 .. Len(functions) : functions[i][1] = name
    THEN functions[CHOOSE i \in 1 .. Len(functions) : functions[i][1] = name][2]
    ELSE None

\* A variant of the patch that leaves the placeholder in place.
set_opcode_lost(c, idx, opcode) == c
\* A patch that makes the jump at idx continue at idx itself.
set_opcode_self(c, idx, opcode) ==
    [c EXCEPT !.bytecode[idx + 1] = [opcode EXCEPT !.a = idx - 1]]
set_opcode(c, idx, opcode) == [c EXCEPT !.bytecode[idx + 1] = opcode]

RECURSIVE Statement_codegen(_, _)
RECURSIVE Expression_codegen(_, _)
RECURSIVE Statements_codegen(_, _, _)
RECURSIVE Arguments_codegen(_, _, _)

\* for statement in body { statement.codegen(compiler) }
Statements_codegen(c, body, i) ==
    IF i > Len(body) \/ c.panicked
    THEN c
    ELSE Statements_codegen(Statement_codegen(c, body[i]), body, i + 1)

\* for argument in &self.arguments { argument.codegen(compiler) }
Arguments_codegen(c, arguments, i) ==
    IF i > Len(arguments) \/ c.panicked
    THEN c
    ELSE Arguments_codegen(Expression_codegen(c, arguments[i]), arguments, i + 1)

PrintStatement_codegen(c, st) ==
    LET c1 == Expression_codegen(c, st.expression)
    IN  IF c1.panicked THEN c1 ELSE emit_bytes(c1, <<Nullary("Print")>>).c

BlockStatement_codegen(c, st) ==
    LET c1 == [c EXCEPT !.depth = @ + 1]
        c2 == Statements_codegen(c1, st.body, 1)
        c3 == emit_stack_cleanup(c2)
    IN  IF c2.panicked THEN c2
        ELSE IF c3.panicked THEN c3
        ELSE [c3 EXCEPT !.depth = @ - 1]

FnStatement_codegen(c, st) ==
    LET e1 == emit_bytes(c, <<Jmp(Placeholder)>>)
        jmp_idx == e1.idx
        c2 == [e1.c EXCEPT !.functions = functions_insert(@, st.name, jmp_idx)]
        c3 == [c2 EXCEPT !.locals = @ \o st.arguments]
        c4 == [c3 EXCEPT !.pops[1] = Len(c3.locals)]
        c5 == IF st.body.k = "Block" THEN BlockStatement_codegen(c4, st.body) ELSE c4
        c6 == emit_stack_cleanup(c5)
        c7 == emit_bytes(c6, <<Nullary("Null"), Nullary("Ret")>>).c
        c8 == set_opcode(c7, jmp_idx, Jmp(Len(c7.bytecode) - 1))
    IN  IF c5.panicked THEN c5
        ELSE IF c6.panicked THEN c6
        ELSE [c8 EXCEPT !.locals = <<>>]

ExpressionStatement_codegen(c, st) ==
    CASE st.expression.k = "Call" ->
            LET c1 == Expression_codegen(c, st.expression)
            IN  IF c1.panicked THEN c1 ELSE emit_bytes(c1, <<Nullary("Pop")>>).c
      [] st.expression.k = "Assign" -> Expression_codegen(c, st.expression)
      [] OTHER -> Panic(c)

ReturnStatement_codegen(c, st) ==
    LET c1 == Expression_codegen(c, st.expression)
        deepset_no == Len(c1.locals)
        c2 == emit_bytes(c1, [i \in 1 .. deepset_no |-> Deepset(deepset_no - (i - 1))]).c
    IN  IF c1.panicked THEN c1 ELSE emit_bytes(c2, <<Nullary("Ret")>>).c

IfStatement_codegen(c, st) ==
    LET c1 == Expression_codegen(c, st.condition)
        e2 == emit_bytes(c1, <<Jz(Placeholder)>>)
        jz_idx == e2.idx
        c3 == Statement_codegen(e2.c, st.if_branch)
        c4 == set_opcode(c3, jz_idx, Jz(Len(c3.bytecode) - 1))
        e5 == emit_bytes(c4, <<Jmp(Placeholder)>>)
        else_idx == e5.idx
        c6 == Statement_codegen(e5.c, st.else_branch)
        c7 == set_opcode(c6, else_idx, Jmp(Len(c6.bytecode) - 1))
    IN  IF c1.panicked THEN c1
        ELSE IF c3.panicked THEN c3
        ELSE IF c6.panicked THEN c6
        ELSE c7

Statement_codegen(c, st) ==
    IF c.panicked THEN c
    ELSE CASE st.k = "Print" -> PrintStatement_codegen(c, st)
           [] st.k = "Fn" -> FnStatement_codegen(c, st)
           [] st.k = "Expression" -> ExpressionStatement_codegen(c, st)
           [] st.k = "Return" -> ReturnStatement_codegen(c, st)
           [] st.k = "If" -> IfStatement_codegen(c, st)
           [] st.k = "Block" -> BlockStatement_codegen(c, st)
           [] OTHER -> c

AssignExpression_codegen(c, e) ==
    IF e.lhs.k # "Variable"
    THEN Panic(c)
    ELSE LET variable_name == e.lhs.value
             c1 == Expression_codegen(c, e.rhs)
             local == resolve_local(c1, variable_name)
         IN  IF c1.panicked THEN c1
             ELSE IF local # None
             THEN emit_bytes(c1, <<Deepset(local + 1)>>).c
             ELSE IF c1.depth >= PopsLen
             THEN Panic(c1)
             ELSE [c1 EXCEPT !.locals = Append(@, variable_name),
                             !.pops[c1.depth] = @ + 1]

CallExpression_codegen(c, e) ==
    LET c1 == Arguments_codegen(c, e.arguments, 1)
        jmp_addr == functions_get(c1.functions, e.variable)
    IN  IF c1.panicked THEN c1
        ELSE IF jmp_addr = None
        THEN Panic(c1)
        ELSE emit_bytes(c1, <<Invoke(Len(e.arguments), jmp_addr)>>).c

BinaryExpression_codegen(c, e) ==
    LET c1 == Expression_codegen(c, e.lhs)
        c2 == Expression_codegen(c1, e.rhs)
    IN  IF c2.panicked THEN c2
        ELSE CASE e.kind = "Add" -> emit_bytes(c2, <<Nullary("Add")>>).c
               [] e.kind = "Sub" -> emit_bytes(c2, <<Nullary("Sub")>>).c
               [] e.kind = "Mul" -> emit_bytes(c2, <<Nullary("Mul")>>).c
               [] e.kind = "Div" -> emit_bytes(c2, <<Nullary("Div")>>).c
               [] e.kind = "Less" -> emit_bytes(c2, <<Nullary("Less")>>).c
               [] e.kind = "Equality" -> emit_bytes(c2, <<Nullary("Eq")>>).c
               [] e.kind = "NotEquality" ->
                      emit_bytes(emit_bytes(c2, <<Nullary("Eq")>>).c, <<Nullary("Not")>>).c

LiteralExpression_codegen(c, e) ==
    CASE e.lit = "Num" -> emit_bytes(c, <<Const(e.n)>>).c
      [] e.lit = "Bool" /\ e.n = 1 -> emit_bytes(c, <<Nullary("False"), Nullary("Not")>>).c
      [] e.lit = "Bool" /\ e.n = 0 -> emit_bytes(c, <<Nullary("False")>>).c
      [] e.lit = "Null" -> emit_bytes(c, <<Nullary("Null")>>).c

VariableExpression_codegen(c, e) ==
    LET local == resolve_local(c, e.value)
        c1 == [c EXCEPT !.locals = Append(@, e.value)]
    IN  IF local # None
        THEN emit_bytes(c, <<Deepget(local + 1)>>).c
        ELSE emit_bytes(c1, <<Deepget(resolve_local(c1, e.value) + 1)>>).c

Expression_codegen(c, e) ==
    IF c.panicked THEN c
    ELSE CASE e.k = "Binary" -> BinaryExpression_codegen(c, e)
           [] e.k = "Literal" -> LiteralExpression_codegen(c, e)
           [] e.k = "Variable" -> VariableExpression_codegen(c, e)
           [] e.k = "Call" -> CallExpression_codegen(c, e)
           [] e.k = "Assign" -> AssignExpression_codegen(c, e)

\* A variant of compile that runs on a compiler that has compiled the program
\* before, not on a newly created one.
compile_reused(ast) ==
    Statements_codegen(Statements_codegen(Compiler_new, ast, 1), ast, 1)

\* Compiler::compile, on a new Compiler: the compiler's state after the pass.
compile(ast) == Statements_codegen(Compiler_new, ast, 1)


(***************************************************************************)
(* The inputs.  A program is either a source program, given as the AST the *)
(* parser hands to Compiler::compile, or a bytecode vector handed to       *)
(* VM::load directly (load is public and takes any Vec<Opcode>).           *)
(*   wf marks the source programs that are well formed: every function is  *)
(*   defined before it is called and called with as many arguments as it   *)
(*   has parameters, every variable is assigned before it is read, every   *)
(*   operator gets operands of its domain, and `return` occurs only inside *)
(*   a function body.                                                      *)
(***************************************************************************)
Source(name, a, b, wf, ast) ==
    [name |-> name, a |-> a, b |-> b, kind |-> "source", wf |-> wf,
     ast |-> ast, code |-> <<>>]
Raw(name, code) ==
    [name |-> name, a |-> 0, b |-> 0, kind |-> "bytecode", wf |-> FALSE,
     ast |-> <<>>, code |-> code]

\* print 1 + 2 * 3;
Prog_arith == <<PrintS(Binary("Add", LitNum(1), Binary("Mul", LitNum(2), LitNum(3))))>>
\* fn id(x,) { return x; } print id(42);
Prog_id ==
    <<FnS("id", <<"x">>, <<ReturnS(Variable("x"))>>),
      PrintS(Call("id", <<LitNum(42)>>))>>
\* fn fib(n,) { if (n < 2) return n; return fib(n-1) + fib(n-2); } print fib(N);
Prog_fib(N) ==
    <<FnS("fib", <<"n">>,
          <<IfS(Binary("Less", Variable("n"), LitNum(2)), ReturnS(Variable("n")), Dummy),
            ReturnS(Binary("Add",
                           Call("fib", <<Binary("Sub", Variable("n"), LitNum(1))>>),
                           Call("fib", <<Binary("Sub", Variable("n"), LitNum(2))>>)))>>),
      PrintS(Call("fib", <<LitNum(N)>>))>>
\* fn f(a,b,) { a = a + b; return a; } print f(A, B);
Prog_sum(A, B) ==
    <<FnS("f", <<"a", "b">>,
          <<ExprS(Assign(Variable("a"), Binary("Add", Variable("a"), Variable("b")))),
            ReturnS(Variable("a"))>>),
      PrintS(Call("f", <<LitNum(A), LitNum(B)>>))>>
\* if (A < B) print 10; else print 20;
Prog_if(A, B) ==
    <<IfS(Binary("Less", LitNum(A), LitNum(B)), PrintS(LitNum(10)), PrintS(LitNum(20)))>>
\* fn k(,) { x = 1; { x = x + 1; } return x; } print k();
Prog_k ==
    <<FnS("k", <<>>,
          <<ExprS(Assign(Variable("x"), LitNum(1))),
            BlockS(<<ExprS(Assign(Variable("x"),
                                  Binary("Add", Variable("x"), LitNum(1))))>>),
            ReturnS(Variable("x"))>>),
      PrintS(Call("k", <<>>))>>
\* x = A;
Prog_decl(A) == <<ExprS(Assign(Variable("x"), LitNum(A)))>>
\* x = A; print x;
Prog_declprint(A) ==
    <<ExprS(Assign(Variable("x"), LitNum(A))), PrintS(Variable("x"))>>
\* x = A; x = B; print x;
Prog_assign(A, B) ==
    <<ExprS(Assign(Variable("x"), LitNum(A))),
      ExprS(Assign(Variable("x"), LitNum(B))),
      PrintS(Variable("x"))>>
\* { x = 1; } y = A; print y;
Prog_blockdecl(A) ==
    <<BlockS(<<ExprS(Assign(Variable("x"), LitNum(1)))>>),
      ExprS(Assign(Variable("y"), LitNum(A))),
      PrintS(Variable("y"))>>
\* fn g(a,) { return a; } g(7);
Prog_callstmt ==
    <<FnS("g", <<"a">>, <<ReturnS(Variable("a"))>>),
      ExprS(Call("g", <<LitNum(7)>>))>>
\* fn f(a,b,) { print a; print b; return 0; } f(A, B);
Prog_args(A, B) ==
    <<FnS("f", <<"a", "b">>,
          <<PrintS(Variable("a")), PrintS(Variable("b")), ReturnS(LitNum(0))>>),
      ExprS(Call("f", <<LitNum(A), LitNum(B)>>))>>
\* fn h(,) { } print h();
Prog_noret == <<FnS("h", <<>>, <<>>), PrintS(Call("h", <<>>))>>
\* print 7 - 2; print 6 / 3; print 1 / 0; print 1 == 1; print 1 != 2;
\* print null == null; print true; print false; print null;
Prog_ops ==
    <<PrintS(Binary("Sub", LitNum(7), LitNum(2))),
      PrintS(Binary("Div", LitNum(6), LitNum(3))),
      PrintS(Binary("Div", LitNum(1), LitNum(0))),
      PrintS(Binary("Equality", LitNum(1), LitNum(1))),
      PrintS(Binary("NotEquality", LitNum(1), LitNum(2))),
      PrintS(Binary("Equality", LitNull, LitNull)),
      PrintS(LitBool(TRUE)),
      PrintS(LitBool(FALSE)),
      PrintS(LitNull)>>
\* print 1 == null;
Prog_eqmixed == <<PrintS(Binary("Equality", LitNum(1), LitNull))>>
\* fn f(,) { } f(); return 1;
Prog_topreturn ==
    <<FnS("f", <<>>, <<>>), ExprS(Call("f", <<>>)), ReturnS(LitNum(1))>>
\* return 1;
Prog_barereturn == <<ReturnS(LitNum(1))>>
\* print g();            (g is never defined)
Prog_unknownfn == <<PrintS(Call("g", <<>>))>>
\* 1;
Prog_exprstmt == <<ExprS(LitNum(1))>>
\* 1 = 2;
Prog_badassign == <<ExprS(Assign(LitNum(1), LitNum(2)))>>
\* print 1 + true;
Prog_addbool == <<PrintS(Binary("Add", LitNum(1), LitBool(TRUE)))>>
\* print 1 < null;
Prog_lessnull == <<PrintS(Binary("Less", LitNum(1), LitNull))>>
\* fn g(a,) { return a; } print g(1) + 2;
Prog_calladd ==
    <<FnS("g", <<"a">>, <<ReturnS(Variable("a"))>>),
      PrintS(Binary("Add", Call("g", <<LitNum(1)>>), LitNum(2)))>>
\* if (1) print 10; else print 20;
Prog_ifnum == <<IfS(LitNum(1), PrintS(LitNum(10)), PrintS(LitNum(20)))>>
\* if (null) print 10; else print 20;
Prog_ifnull == <<IfS(LitNull, PrintS(LitNum(10)), PrintS(LitNum(20)))>>
\* print null - 1;
Prog_subnull == <<PrintS(Binary("Sub", LitNull, LitNum(1)))>>
\* print 2 * false;
Prog_mulbool == <<PrintS(Binary("Mul", LitNum(2), LitBool(FALSE)))>>
\* print 1 / null;
Prog_divnull == <<PrintS(Binary("Div", LitNum(1), LitNull))>>
\* print true == 1;
Prog_eqboolnum == <<PrintS(Binary("Equality", LitBool(TRUE), LitNum(1)))>>
\* print g(); fn g(,) { return 1; }        (g is defined after its call)
Prog_latefn ==
    <<PrintS(Call("g", <<>>)), FnS("g", <<>>, <<ReturnS(LitNum(1))>>)>>
\* print X == X; print X != X;
Prog_eqself(X) ==
    <<PrintS(Binary("Equality", X, X)), PrintS(Binary("NotEquality", X, X))>>
\* { x = 1; } { y = 2; }
Prog_siblings ==
    <<BlockS(<<ExprS(Assign(Variable("x"), LitNum(1)))>>),
      BlockS(<<ExprS(Assign(Variable("y"), LitNum(2)))>>)>>
\* fn f(a,) { b = 1; } { y = 2; }
Prog_fnthenblock ==
    <<FnS("f", <<"a">>, <<ExprS(Assign(Variable("b"), LitNum(1)))>>),
      BlockS(<<ExprS(Assign(Variable("y"), LitNum(2)))>>)>>
\* fn f(,) { { x = 1; } return 2; } print f();
Prog_blockret ==
    <<FnS("f", <<>>,
          <<BlockS(<<ExprS(Assign(Variable("x"), LitNum(1)))>>),
            ReturnS(LitNum(2))>>),
      PrintS(Call("f", <<>>))>>
\* x = A; fn f(,) { return 0; } f(); print 1;
Prog_belowcall(A) ==
    <<ExprS(Assign(Variable("x"), LitNum(A))),
      FnS("f", <<>>, <<ReturnS(LitNum(0))>>),
      ExprS(Call("f", <<>>)),
      PrintS(LitNum(1))>>
\* x = 5; fn f(a,) { b = a; return b; } print f(7);
Prog_topthenfn ==
    <<ExprS(Assign(Variable("x"), LitNum(5))),
      FnS("f", <<"a">>,
          <<ExprS(Assign(Variable("b"), Variable("a"))), ReturnS(Variable("b"))>>),
      PrintS(Call("f", <<LitNum(7)>>))>>
\* x = 5; fn h(a,) { b = 1; } print h(7);
Prog_noretargs ==
    <<ExprS(Assign(Variable("x"), LitNum(5))),
      FnS("h", <<"a">>, <<ExprS(Assign(Variable("b"), LitNum(1)))>>),
      PrintS(Call("h", <<LitNum(7)>>))>>
\* fn g(a,) { return a; } print g(1, 2);
Prog_arity ==
    <<FnS("g", <<"a">>, <<ReturnS(Variable("a"))>>),
      PrintS(Call("g", <<LitNum(1), LitNum(2)>>))>>
\* x = 1; print x = 2;
Prog_printassign ==
    <<ExprS(Assign(Variable("x"), LitNum(1))),
      PrintS(Assign(Variable("x"), LitNum(2)))>>
\* print 1; fn f(,) { }
Prog_fnlast == <<PrintS(LitNum(1)), FnS("f", <<>>, <<>>)>>
\* print y;              (y is never declared)
Prog_undeclared == <<PrintS(Variable("y"))>>
\* fn f(,) { return y; } print 1;          (y is never declared)
Prog_undeclaredfn ==
    <<FnS("f", <<>>, <<ReturnS(Variable("y"))>>), PrintS(LitNum(1))>>

SourcePrograms ==
    <<Source("arith", 0, 0, TRUE, Prog_arith),
      Source("id", 0, 0, TRUE, Prog_id),
      Source("k", 0, 0, TRUE, Prog_k),
      Source("callstmt", 0, 0, TRUE, Prog_callstmt),
      Source("noret", 0, 0, TRUE, Prog_noret),
      Source("ops", 0, 0, TRUE, Prog_ops),
      Source("topreturn", 0, 0, FALSE, Prog_topreturn),
      Source("barereturn", 0, 0, FALSE, Prog_barereturn),
      Source("unknownfn", 0, 0, FALSE, Prog_unknownfn),
      Source("exprstmt", 0, 0, FALSE, Prog_exprstmt),
      Source("badassign", 0, 0, FALSE, Prog_badassign),
      Source("addbool", 0, 0, FALSE, Prog_addbool),
      Source("lessnull", 0, 0, FALSE, Prog_lessnull),
      Source("eqmixed", 0, 0, FALSE, Prog_eqmixed),
      Source("calladd", 0, 0, TRUE, Prog_calladd),
      Source("ifnum", 0, 0, FALSE, Prog_ifnum),
      Source("ifnull", 0, 0, FALSE, Prog_ifnull),
      Source("subnull", 0, 0, FALSE, Prog_subnull),
      Source("mulbool", 0, 0, FALSE, Prog_mulbool),
      Source("divnull", 0, 0, FALSE, Prog_divnull),
      Source("eqboolnum", 0, 0, FALSE, Prog_eqboolnum),
      Source("latefn", 0, 0, FALSE, Prog_latefn),
      Source("undeclared", 0, 0, FALSE, Prog_undeclared),
      Source("undeclaredfn", 0, 0, FALSE, Prog_undeclaredfn),
      Source("eqselfbool", 0, 0, TRUE, Prog_eqself(LitBool(FALSE))),
      Source("eqselfbool", 1, 0, TRUE, Prog_eqself(LitBool(TRUE))),
      Source("eqselfnull", 0, 0, TRUE, Prog_eqself(LitNull)),
      Source("eqselfnan", 0, 0, TRUE,
             Prog_eqself(Binary("Div", LitNum(0), LitNum(0)))),
      Source("siblings", 0, 0, TRUE, Prog_siblings),
      Source("fnthenblock", 0, 0, TRUE, Prog_fnthenblock),
      Source("blockret", 0, 0, TRUE, Prog_blockret),
      Source("topthenfn", 0, 0, TRUE, Prog_topthenfn),
      Source("noretargs", 0, 0, TRUE, Prog_noretargs),
      Source("arity", 0, 0, FALSE, Prog_arity),
      Source("printassign", 0, 0, TRUE, Prog_printassign),
      Source("fnlast", 0, 0, TRUE, Prog_fnlast),
      Source("empty", 0, 0, TRUE, <<>>)>>
    \o [i \in 1 .. MaxLit + 1 |->
            Source("belowcall", i - 1, 0, TRUE, Prog_belowcall(i - 1))]
    \o [i \in 1 .. MaxLit + 1 |->
            Source("eqselfnum", i - 1, 0, TRUE, Prog_eqself(LitNum(i - 1)))]
    \o [n \in 1 .. MaxFib + 1 |-> Source("fib", n - 1, 0, TRUE, Prog_fib(n - 1))]
    \o [i \in 1 .. MaxLit + 1 |-> Source("decl", i - 1, 0, TRUE, Prog_decl(i - 1))]
    \o [i \in 1 .. MaxLit + 1 |->
            Source("declprint", i - 1, 0, TRUE, Prog_declprint(i - 1))]
    \o [i \in 1 .. MaxLit + 1 |->
            Source("blockdecl", i - 1, 0, TRUE, Prog_blockdecl(i - 1))]
    \o [i \in 1 .. (MaxLit + 1) * (MaxLit + 1) |->
            LET A == (i - 1) \div (MaxLit + 1)
                B == (i - 1) % (MaxLit + 1)
            IN  Source("if", A, B, TRUE, Prog_if(A, B))]
    \o [i \in 1 .. (MaxLit + 1) * (MaxLit + 1) |->
            LET A == (i - 1) \div (MaxLit + 1)
                B == (i - 1) % (MaxLit + 1)
            IN  Source("sum", A, B, TRUE, Prog_sum(A, B))]
    \o [i \in 1 .. (MaxLit + 1) * (MaxLit + 1) |->
            LET A == (i - 1) \div (MaxLit + 1)
                B == (i - 1) % (MaxLit + 1)
            IN  Source("args", A, B, TRUE, Prog_args(A, B))]
    \o [i \in 1 .. (MaxLit + 1) * (MaxLit + 1) |->
            LET A == (i - 1) \div (MaxLit + 1)
                B == (i - 1) % (MaxLit + 1)
            IN  Source("assign", A, B, TRUE, Prog_assign(A, B))]

RawPrograms ==
    <<Raw("strcat", <<OpStr(<<"a">>), OpStr(<<"b">>), Nullary("Strcat"), Nullary("Print")>>),
      Raw("strcatnum", <<OpStr(<<"a">>), Const(1), Nullary("Strcat"), Nullary("Print")>>),
      Raw("notnum", <<Const(1), Nullary("Not")>>),
      Raw("jmpout", <<Jmp(5), Nullary("Null")>>),
      Raw("jzout", <<Nullary("False"), Jz(7), Nullary("Null")>>),
      Raw("jzstr", <<OpStr(<<"a">>), Jz(2), Const(1), Nullary("Print")>>),
      Raw("notnull", <<Nullary("Null"), Nullary("Not")>>),
      Raw("popempty", <<Nullary("Pop"), Const(1), Nullary("Print")>>),
      Raw("printempty", <<Nullary("Print"), Const(1), Nullary("Print")>>),
      Raw("jzempty", <<Jz(1), Const(1), Nullary("Print")>>),
      Raw("notempty", <<Nullary("Not"), Const(1), Nullary("Print")>>),
      Raw("addone", <<Const(1), Nullary("Add"), Nullary("Print")>>),
      Raw("subone", <<Const(1), Nullary("Sub"), Nullary("Print")>>),
      Raw("mulone", <<Const(1), Nullary("Mul"), Nullary("Print")>>),
      Raw("divone", <<Const(1), Nullary("Div"), Nullary("Print")>>),
      Raw("lessone", <<Const(1), Nullary("Less"), Nullary("Print")>>),
      Raw("eqone", <<Const(1), Nullary("Eq"), Nullary("Print")>>),
      Raw("notnot", <<Const(7), Nullary("Null"), Nullary("False"),
                      Nullary("Not"), Nullary("Not"), Nullary("Print")>>),
      [Raw("notnot", <<Const(7), Nullary("Null"), Nullary("False"), Nullary("Not"),
                       Nullary("Not"), Nullary("Not"), Nullary("Print")>>)
           EXCEPT !.a = 1]>>

Programs == SourcePrograms \o RawPrograms


(***************************************************************************)
(* The state.                                                              *)
(*   program     the input, an index into Programs                         *)
(*   debug       whether the build has debug assertions (overflow checks)  *)
(*   compiled    the Vec<Opcode> Compiler::compile returned, or the        *)
(*               bytecode vector of a bytecode input                       *)
(*   bytecode    VM.bytecode; <<>> is None (a loaded program is never      *)
(*               empty: load appends EndOfProgram)                         *)
(*   stack       VM.stack                                                  *)
(*   frame_ptrs  VM.frame_ptrs: BytecodePtr(ptr, location) records         *)
(*   ip          VM.ip                                                     *)
(*   stdout      the Objects written by Print, in order                    *)
(*   status      "source": not yet compiled; "ready": a VM was created;    *)
(*               "running": inside VM::run; "halted": run returned;        *)
(*               "panic": a Rust panic ended the process; "exit": the      *)
(*               process ended by runtime_error!; "undefined": the         *)
(*               unchecked fetch read outside the bytecode                 *)
(***************************************************************************)
VARIABLES program, debug, compiled, bytecode, stack, frame_ptrs, ip, stdout, status

vars == <<program, debug, compiled, bytecode, stack, frame_ptrs, ip, stdout, status>>

P == Programs[program]

\* VM::new, for one of the inputs.
Init ==
    /\ program \in 1 .. Len(Programs)
    /\ debug \in BOOLEAN
    /\ compiled = Programs[program].code
    /\ bytecode = <<>>
    /\ stack = <<>>
    /\ frame_ptrs = <<>>
    /\ ip = 0
    /\ stdout = <<>>
    /\ status = IF Programs[program].kind = "source" THEN "source" ELSE "ready"

\* Compiler::new().compile(ast)
Compile ==
    /\ status = "source"
    /\ LET c == compile(P.ast)
       IN  IF c.panicked
           THEN /\ status' = "panic"
                /\ UNCHANGED compiled
           ELSE /\ status' = "ready"
                /\ compiled' = c.bytecode
    /\ UNCHANGED <<program, debug, bytecode, stack, frame_ptrs, ip, stdout>>

\* VM::load
\* A load that takes the compiled bytecode as it is, with no end marker.
load_noend ==
    /\ status = "ready"
    /\ bytecode = <<>>
    /\ bytecode' = compiled
    /\ UNCHANGED <<program, debug, compiled, stack, frame_ptrs, ip, stdout, status>>

load ==
    /\ status = "ready"
    /\ bytecode = <<>>
    /\ bytecode' = Append(compiled, Nullary("EndOfProgram"))
    /\ UNCHANGED <<program, debug, compiled, stack, frame_ptrs, ip, stdout, status>>

\* VM::run up to its loop: the expect() and the assert!.
run ==
    /\ status = "ready"
    /\ status' = IF bytecode = <<>> \/ ~(ip < Len(bytecode)) THEN "panic" ELSE "running"
    /\ UNCHANGED <<program, debug, compiled, bytecode, stack, frame_ptrs, ip, stdout>>

InBounds == 0 <= ip /\ ip < Len(bytecode)
\* The instruction at ip.
Cur == bytecode[ip + 1]
\* The loop of VM::run is about to dispatch opcode op.
Fetch(op) == status = "running" /\ InBounds /\ Cur.op = op

Top == stack[Len(stack)]
Pop1 == SubSeq(stack, 1, Len(stack) - 1)
Pop2 == SubSeq(stack, 1, Len(stack) - 2)

\* The handler returned: the loop's `self.ip += 1`.
Advance(newstack) ==
    /\ stack' = newstack
    /\ ip' = ip + 1
    /\ UNCHANGED <<program, debug, compiled, bytecode, frame_ptrs, stdout, status>>

\* unwrap() of None, unreachable!(), unimplemented!(), an index out of bounds.
VmPanic ==
    /\ status' = "panic"
    /\ UNCHANGED <<program, debug, compiled, bytecode, stack, frame_ptrs, ip, stdout>>

\* adjust_idx!: the location of the top frame pointer (0 without one) plus idx.
adjust_idx(idx) ==
    LET fp == IF frame_ptrs # <<>> THEN frame_ptrs[Len(frame_ptrs)].location ELSE 0
    IN  fp + idx

Abs(n) == IF n < 0 THEN -n ELSE n
Divides(a, b) == b # 0 /\ Abs(a) % Abs(b) = 0
Quotient(a, b) ==
    IF (a < 0) = (b < 0) THEN Abs(a) \div Abs(b) ELSE -(Abs(a) \div Abs(b))

BothNumbers(a, b) == a.t = "Number" /\ b.t = "Number"
Exact(a, b) == ~IsInexact(a) /\ ~IsInexact(b)

\* An f64 operation with an operand that is no integer: NaN if an operand is
\* NaN, otherwise an f64 the model does not track.
Untracked(a, b) == IF IsNaN(a) \/ IsNaN(b) THEN {ObjNaN} ELSE {ObjInexact}

\* impl Add, Sub, Mul, Div for Object: the possible results on two Numbers.
Object_add(a, b) == IF Exact(a, b) THEN {ObjNumber(a.n + b.n)} ELSE Untracked(a, b)
Object_sub(a, b) == IF Exact(a, b) THEN {ObjNumber(a.n - b.n)} ELSE Untracked(a, b)
Object_mul(a, b) == IF Exact(a, b) THEN {ObjNumber(a.n * b.n)} ELSE Untracked(a, b)
Object_div(a, b) ==
    IF Exact(a, b) /\ Divides(a.n, b.n)
    THEN {ObjNumber(Quotient(a.n, b.n))}
    ELSE IF Exact(a, b) /\ a.n = 0 /\ b.n = 0
    THEN {ObjNaN}
    ELSE Untracked(a, b)
\* impl PartialOrd for Object, used by `a < b`: no order holds with a NaN.
Object_lt(a, b) ==
    IF Exact(a, b) THEN {ObjBool(a.n < b.n)}
    ELSE IF IsNaN(a) \/ IsNaN(b) THEN {ObjBool(FALSE)}
    ELSE {ObjBool(TRUE), ObjBool(FALSE)}
\* A variant of the equality that yields the opposite answer.
Object_eq_inverted(a, b) == {ObjBool(a # b)}
\* #[derive(PartialEq)] on Object, used by `a == b`.
\* f64 equality: NaN equals nothing, itself included.
Object_eq(a, b) ==
    IF BothNumbers(a, b) /\ (IsNaN(a) \/ IsNaN(b))
    THEN {ObjBool(FALSE)}
    ELSE IF BothNumbers(a, b) /\ ~Exact(a, b)
    THEN {ObjBool(TRUE), ObjBool(FALSE)}
    ELSE {ObjBool(a = b)}

\* binop!: pop b, pop a, push (a op b); results is empty where the operator's
\* impl panics.
Rhs == stack[Len(stack)]
Lhs == stack[Len(stack) - 1]
binop(results) ==
    IF Len(stack) < 2
    THEN VmPanic
    ELSE IF results = {}
         THEN VmPanic
         ELSE \E r \in results : Advance(Append(Pop2, r))

\* A variant of the operator impls whose `_` arm yields Null instead of
\* panicking.
OnNumbers_lenient(results) == IF BothNumbers(Lhs, Rhs) THEN results ELSE {ObjNull}

\* The `_ => unimplemented!()` arm of the operator impls.
OnNumbers(results) == IF BothNumbers(Lhs, Rhs) THEN results ELSE {}

handle_op_const == Fetch("Const") /\ Advance(Append(stack, ObjNumber(Cur.a)))

handle_op_str == Fetch("Str") /\ Advance(Append(stack, ObjString(Cur.s)))

handle_op_strcat ==
    /\ Fetch("Strcat")
    /\ IF Len(stack) < 2
       THEN VmPanic
       ELSE LET b == stack[Len(stack)]
                a == stack[Len(stack) - 1]
            IN  IF a.t = "String" /\ b.t = "String"
                THEN Advance(Append(Pop2, ObjString(a.s \o b.s)))
                ELSE /\ status' = "exit"
                     /\ UNCHANGED <<program, debug, compiled, bytecode, stack,
                                    frame_ptrs, ip, stdout>>

handle_op_print ==
    /\ Fetch("Print")
    /\ IF stack # <<>>
       THEN /\ stdout' = Append(stdout, Top)
            /\ stack' = Pop1
       ELSE UNCHANGED <<stdout, stack>>
    /\ ip' = ip + 1
    /\ UNCHANGED <<program, debug, compiled, bytecode, frame_ptrs, status>>

handle_op_add == Fetch("Add") /\ binop(OnNumbers(Object_add(Lhs, Rhs)))
handle_op_sub == Fetch("Sub") /\ binop(OnNumbers(Object_sub(Lhs, Rhs)))
handle_op_mul == Fetch("Mul") /\ binop(OnNumbers(Object_mul(Lhs, Rhs)))
handle_op_div == Fetch("Div") /\ binop(OnNumbers(Object_div(Lhs, Rhs)))
handle_op_eq == Fetch("Eq") /\ binop(Object_eq(Lhs, Rhs))
handle_op_less == Fetch("Less") /\ binop(OnNumbers(Object_lt(Lhs, Rhs)))

handle_op_false == Fetch("False") /\ Advance(Append(stack, ObjBool(FALSE)))

\* A variant of handle_op_not that reads the operand without popping it.
handle_op_not_peek ==
    /\ Fetch("Not")
    /\ IF stack = <<>> \/ Top.t # "Bool"
       THEN VmPanic
       ELSE Advance(Append(stack, ObjBool(Top.n = 0)))

handle_op_not ==
    /\ Fetch("Not")
    /\ IF stack = <<>> \/ Top.t # "Bool"
       THEN VmPanic
       ELSE Advance(Append(Pop1, ObjBool(Top.n = 0)))

handle_op_null == Fetch("Null") /\ Advance(Append(stack, ObjNull))

\* A jump that takes its operand as the next index, without the loop's
\* `self.ip += 1` after the handler.
handle_op_jmp_direct ==
    /\ Fetch("Jmp")
    /\ ip' = Cur.a
    /\ UNCHANGED <<program, debug, compiled, bytecode, stack, frame_ptrs, stdout, status>>

handle_op_jmp ==
    /\ Fetch("Jmp")
    /\ ip' = Cur.a + 1
    /\ UNCHANGED <<program, debug, compiled, bytecode, stack, frame_ptrs, stdout, status>>

handle_op_jz ==
    /\ Fetch("Jz")
    /\ IF stack = <<>>
       THEN VmPanic
       ELSE /\ stack' = Pop1
            /\ ip' = IF Top = ObjBool(FALSE) THEN Cur.a + 1 ELSE ip + 1
            /\ UNCHANGED <<program, debug, compiled, bytecode, frame_ptrs, stdout, status>>

\* A variant of handle_op_invoke that also leaves the return address on the
\* operand stack, above the arguments.
handle_op_invoke_onstack ==
    /\ Fetch("Invoke")
    /\ IF Len(stack) < Cur.a /\ debug
       THEN VmPanic
       ELSE /\ frame_ptrs' =
                   Append(frame_ptrs, [ptr |-> ip + 1, location |-> Len(stack) - Cur.a])
            /\ stack' = Append(stack, [t |-> "BytecodePtr", n |-> ip + 1, s |-> <<>>])
            /\ ip' = ip + 1
            /\ UNCHANGED <<program, debug, compiled, bytecode, stdout, status>>

\* An invoke that consumes its n arguments.
handle_op_invoke_popargs ==
    /\ Fetch("Invoke")
    /\ IF Len(stack) < Cur.a /\ debug
       THEN VmPanic
       ELSE /\ frame_ptrs' =
                   Append(frame_ptrs, [ptr |-> ip + 1, location |-> Len(stack) - Cur.a])
            /\ stack' = SubSeq(stack, 1, Len(stack) - Cur.a)
            /\ ip' = ip + 1
            /\ UNCHANGED <<program, debug, compiled, bytecode, stdout, status>>

\* handle_op_invoke(n): the entry operand is read by no handler.  With fewer
\* than n values on the stack `self.stack.len() - n` overflows: a panic in a
\* debug build; in a release build the location wraps around, kept here as
\* the negative number it is congruent to modulo 2^64.
handle_op_invoke ==
    /\ Fetch("Invoke")
    /\ IF Len(stack) < Cur.a /\ debug
       THEN VmPanic
       ELSE /\ frame_ptrs' =
                   Append(frame_ptrs, [ptr |-> ip + 1, location |-> Len(stack) - Cur.a])
            /\ ip' = ip + 1
            /\ UNCHANGED <<program, debug, compiled, bytecode, stack, stdout, status>>

handle_op_ret ==
    /\ Fetch("Ret")
    /\ IF frame_ptrs = <<>>
       THEN VmPanic
       ELSE /\ frame_ptrs' = SubSeq(frame_ptrs, 1, Len(frame_ptrs) - 1)
            /\ ip' = frame_ptrs[Len(frame_ptrs)].ptr + 1
            /\ UNCHANGED <<program, debug, compiled, bytecode, stack, stdout, status>>

\* The index is in the stack (an index of a wrapped location is not).
InStack(i) == 0 <= i /\ i < Len(stack)

handle_op_deepget ==
    /\ Fetch("Deepget")
    /\ IF InStack(adjust_idx(Cur.a))
       THEN Advance(Append(stack, stack[adjust_idx(Cur.a) + 1]))
       ELSE VmPanic

\* Vec::swap_remove(i): the last element takes the place of element i.
swap_remove(v, i) ==
    IF i = Len(v) - 1
    THEN SubSeq(v, 1, Len(v) - 1)
    ELSE SubSeq([v EXCEPT ![i + 1] = v[Len(v)]], 1, Len(v) - 1)

handle_op_deepset ==
    /\ Fetch("Deepset")
    /\ IF InStack(adjust_idx(Cur.a))
       THEN Advance(swap_remove(stack, adjust_idx(Cur.a)))
       ELSE VmPanic

handle_op_pop ==
    /\ Fetch("Pop")
    /\ Advance(IF stack = <<>> THEN stack ELSE Pop1)

\* Opcode::EndOfProgram => break
EndOfProgram ==
    /\ Fetch("EndOfProgram")
    /\ status' = "halted"
    /\ UNCHANGED <<program, debug, compiled, bytecode, stack, frame_ptrs, ip, stdout>>

\* bytecode.get_unchecked(self.ip) with ip outside the bytecode is undefined
\* behaviour: the process may crash, or read anything as an opcode.
UndefinedOutcomes == {"panic", "halted", "undefined"}
fetch_unchecked ==
    /\ status = "running"
    /\ ~InBounds
    /\ status' \in UndefinedOutcomes
    /\ UNCHANGED <<program, debug, compiled, bytecode, stack, frame_ptrs, ip, stdout>>

Next ==
    \/ Compile
    \/ load
    \/ run
    \/ handle_op_const
    \/ handle_op_str
    \/ handle_op_strcat
    \/ handle_op_print
    \/ handle_op_add
    \/ handle_op_sub
    \/ handle_op_mul
    \/ handle_op_div
    \/ handle_op_eq
    \/ handle_op_less
    \/ handle_op_false
    \/ handle_op_not
    \/ handle_op_null
    \/ handle_op_jmp
    \/ handle_op_jz
    \/ handle_op_invoke
    \/ handle_op_ret
    \/ handle_op_deepget
    \/ handle_op_deepset
    \/ handle_op_pop
    \/ EndOfProgram
    \/ fetch_unchecked

Spec == Init /\ [][Next]_vars

\* Once the bytecode is compiled the caller loads and runs it, and the loop
\* of VM::run executes instruction after instruction until a handler panics
\* or EndOfProgram breaks out of it: a step that can be taken is taken.
LiveSpec == Spec /\ WF_vars(status # "source" /\ Next)


(***************************************************************************)
(* Vocabulary of the properties.                                           *)
(***************************************************************************)
\* The input is a well-formed source program.
WellFormed == P.kind = "source" /\ P.wf
\* A run of the loaded program has ended, in whatever way.
Finished == bytecode # <<>> /\ status \in {"halted", "panic", "exit", "undefined"}
\* The current frame's base: the location of the top frame pointer, 0 at top level.
FrameBase == adjust_idx(0)
\* Index i lies in the body of a compiled function: after the function's
\* header Jmp and up to that Jmp's operand, the trailing Ret.
InFunctionBody(i) ==
    LET functions == compile(P.ast).functions
    IN  \E f \in 1 .. Len(functions) :
            /\ functions[f][2] < i
            /\ i <= compiled[functions[f][2] + 1].a
\* Every top-level statement is a function definition, or a call with literal
\* arguments that is printed or used as a statement: the top level keeps no
\* value on the operand stack between statements.
TopLevelCallsOnly(ast) ==
    \A i \in 1 .. Len(ast) :
        \/ ast[i].k = "Fn"
        \/ /\ ast[i].k \in {"Print", "Expression"}
           /\ ast[i].expression.k = "Call"
           /\ \A j \in 1 .. Len(ast[i].expression.arguments) :
                  ast[i].expression.arguments[j].k = "Literal"
\* The instruction before ip is an Invoke of top-level code: control is in
\* the caller, at the instruction that follows the call.
BackInTopLevelCaller ==
    /\ status = "running"
    /\ ip >= 1
    /\ ip <= Len(bytecode)
    /\ bytecode[ip].op = "Invoke"
    /\ ~InFunctionBody(ip)

RECURSIVE Fibonacci(_)
Fibonacci(n) == IF n < 2 THEN n ELSE Fibonacci(n - 1) + Fibonacci(n - 2)

(***************************************************************************)
(* C1.  A call leaves exactly one value: when control is back in the       *)
(* caller, the operand stack is the stack from before the first argument   *)
(* was evaluated plus the return value.  Stated for the calls of top-level *)
(* statements of programs whose top level keeps nothing on the stack, where*)
(* the stack before the first argument is empty: back in the caller the    *)
(* stack holds exactly one value.                                          *)
(***************************************************************************)
C1_CallLeavesOneValue ==
    (WellFormed /\ TopLevelCallsOnly(P.ast) /\ BackInTopLevelCaller)
        => Len(stack) = 1

(***************************************************************************)
(* C2.  For every well-formed program the operand stack is empty when the  *)
(* VM halts at the end of the program.                                     *)
(***************************************************************************)
C2_StackEmptyAtHalt == (WellFormed /\ status = "halted") => stack = <<>>

(***************************************************************************)
(* C3.  Every Invoke is matched by one Ret that restores the size of the   *)
(* frame-pointer stack: the frame-pointer stack is empty whenever          *)
(* top-level code executes and when the run halts.                         *)
(***************************************************************************)
C3_FramePointersBalanced ==
    (WellFormed /\ (status = "halted" \/ (status = "running" /\ ~InFunctionBody(ip))))
        => frame_ptrs = <<>>

(***************************************************************************)
(* C4.  Whenever a Ret is about to execute, the return value is on top of  *)
(* the operand stack and the entry immediately below it is the             *)
(* return-address BytecodePtr placed by the Invoke.                        *)
(***************************************************************************)
C4_RetAddressBelowReturnValue ==
    Fetch("Ret") => (Len(stack) >= 2 /\ stack[Len(stack) - 1].t = "BytecodePtr")

(***************************************************************************)
(* C5.  Every Deepget(s) and Deepset(s) of a variable executes while the   *)
(* variable's slot is on the operand stack: slot s is one of the slots the *)
(* current frame holds at that moment (for Deepset, below the value to be  *)
(* stored), also for a variable declared after a nested block has exited.  *)
(***************************************************************************)
C5_SlotOnStack ==
    /\ (WellFormed /\ Fetch("Deepget"))
           => (1 <= Cur.a /\ Cur.a <= Len(stack) - FrameBase)
    /\ (WellFormed /\ Fetch("Deepset"))
           => (1 <= Cur.a /\ Cur.a <= Len(stack) - 1 - FrameBase)

(***************************************************************************)
(* C6.  Every Deepget executed in a run of a compiled program addresses an *)
(* operand-stack position inside the current frame: at or above the frame  *)
(* base and below the stack top.                                           *)
(***************************************************************************)
C6_DeepgetInsideFrame ==
    (WellFormed /\ Fetch("Deepget"))
        => (FrameBase <= adjust_idx(Cur.a) /\ adjust_idx(Cur.a) < Len(stack))

(***************************************************************************)
(* C7.  `if (A < B) print 10; else print 20;` runs the then-branch and not *)
(* the else-branch when A < B, the else-branch and not the then-branch     *)
(* otherwise, and has popped the condition when it continues after the     *)
(* else-branch.                                                            *)
(***************************************************************************)
C7_IfElse ==
    (P.name = "if" /\ Finished)
        => /\ status = "halted"
           /\ stdout = <<ObjNumber(IF P.a < P.b THEN 10 ELSE 20)>>
           /\ stack = <<>>

(***************************************************************************)
(* C8.  The fib program run for N prints exactly one value, the N-th       *)
(* Fibonacci number, and halts.                                            *)
(***************************************************************************)
C8_Fib ==
    /\ (P.name = "fib" /\ Finished)
           => (status = "halted" /\ stdout = <<ObjNumber(Fibonacci(P.a))>>)
    /\ P.name = "fib" => Len(stdout) <= 1

(***************************************************************************)
(* C9.  In f(A, B), with f declared with parameters a and b, reading a     *)
(* inside the callee yields A and reading b yields B: the program that     *)
(* prints a and then b in f prints A and then B.                           *)
(***************************************************************************)
C9_ArgumentsAreParameters ==
    (P.name = "args" /\ Finished)
        => (status = "halted" /\ stdout = <<ObjNumber(P.a), ObjNumber(P.b)>>)

(***************************************************************************)
(* C10.  An assignment in a nested block to a variable of an enclosing     *)
(* block writes the enclosing variable's slot:                             *)
(* `fn k(,) { x = 1; { x = x + 1; } return x; } print k();` prints 2.      *)
(***************************************************************************)
C10_NestedBlockAssignment ==
    (P.name = "k" /\ Finished)
        => (status = "halted" /\ stdout = <<ObjNumber(2)>>)

(***************************************************************************)
(* C11.  No Add, Sub, Mul, Div, Less, Eq or Not ever takes a return        *)
(* address (BytecodePtr) as an operand, and no Print ever pops one: when   *)
(* one of these instructions is about to execute, the operands it will pop *)
(* are not return addresses, and nothing printed is one.                   *)
(***************************************************************************)
IsBytecodePtr(o) == o.t = "BytecodePtr"
BinaryOps == {"Add", "Sub", "Mul", "Div", "Less", "Eq"}
C11_NoBytecodePtrOperand ==
    /\ ((\E op \in BinaryOps : Fetch(op)) /\ Len(stack) >= 2)
           => (~IsBytecodePtr(Lhs) /\ ~IsBytecodePtr(Rhs))
    /\ ((Fetch("Not") \/ Fetch("Print")) /\ stack # <<>>) => ~IsBytecodePtr(Top)
    /\ \A i \in 1 .. Len(stdout) : ~IsBytecodePtr(stdout[i])
\* An Add is about to take its operands while a call's return address is held.
C11_Witness ==
    /\ P.name = "calladd"
    /\ Fetch("Add")
    /\ Len(stack) >= 2
    /\ frame_ptrs # <<>>

(***************************************************************************)
(* C12.  In the bytecode compile returns, the operand of every Jmp and Jz  *)
(* is a patched target inside the program (at least 0, less than the       *)
(* program's length, not the placeholder), and the entry operand of every  *)
(* Invoke is the index of the header Jmp of a function of the program.     *)
(***************************************************************************)
\* compile has returned its bytecode.
Compiled ==
    /\ P.kind = "source"
    /\ status # "source"
    /\ (status = "panic" => bytecode # <<>>)
IsFunctionHeader(code, entry) ==
    /\ 0 <= entry
    /\ entry < Len(code)
    /\ code[entry + 1].op = "Jmp"
    /\ LET functions == compile(P.ast).functions
       IN  \E f \in 1 .. Len(functions) : functions[f][2] = entry
C12_TargetsPatched ==
    Compiled =>
        \A i \in 1 .. Len(compiled) :
            /\ compiled[i].op \in {"Jmp", "Jz"}
                   => /\ 0 <= compiled[i].a
                      /\ compiled[i].a < Len(compiled)
                      /\ compiled[i].a # Placeholder
            /\ compiled[i].op = "Invoke" => IsFunctionHeader(compiled, compiled[i].b)
\* The compiled fib program: a function header, an if and recursive calls.
C12_Witness ==
    /\ P.name = "fib"
    /\ Compiled
    /\ \E i \in 1 .. Len(compiled) : compiled[i].op = "Jz"
    /\ \E i \in 1 .. Len(compiled) : compiled[i].op = "Jmp"
    /\ \E i \in 1 .. Len(compiled) : compiled[i].op = "Invoke"

(***************************************************************************)
(* Vocabulary of the runtime faults.                                       *)
(***************************************************************************)
\* The run was terminated by a fault: a panic, or runtime_error!'s exit.
Faulted == status \in {"panic", "exit"}
\* The number of values the instruction at ip pops.
Needs(op) ==
    IF op \in BinaryOps THEN 2
    ELSE IF op \in {"Pop", "Print", "Jz", "Not"} THEN 1
    ELSE 0

(***************************************************************************)
(* C13.  Executing Jz when the value it pops is not a Bool terminates the  *)
(* run in an error state: the step of a Jz with a Number, Null or String   *)
(* on top of the stack ends in a fault.                                    *)
(***************************************************************************)
C13_JzNonBoolFaults ==
    [][(Fetch("Jz") /\ stack # <<>> /\ Top.t # "Bool") => Faulted']_vars

(***************************************************************************)
(* C14.  Executing an opcode that pops (Pop, Print, Jz, Not, Add, Sub,     *)
(* Mul, Div, Less, Eq) with fewer values on the operand stack than it pops *)
(* terminates the run with a fault.                                        *)
(***************************************************************************)
C14_EmptyPopFaults ==
    [][(status = "running" /\ InBounds /\ Len(stack) < Needs(Cur.op)) => Faulted']_vars

(***************************************************************************)
(* C15.  Add, Sub, Mul, Div or Less with an operand that is not a Number,  *)
(* or Not with an operand that is not a Bool, terminates the run as a      *)
(* runtime fault and pushes no result: the step ends in a fault with       *)
(* nothing added to the stack and nothing printed.                         *)
(***************************************************************************)
ArithmeticOps == {"Add", "Sub", "Mul", "Div", "Less"}
OutsideDomain ==
    \/ /\ \E op \in ArithmeticOps : Fetch(op)
       /\ Len(stack) >= 2
       /\ ~BothNumbers(Lhs, Rhs)
    \/ /\ Fetch("Not")
       /\ stack # <<>>
       /\ Top.t # "Bool"
C15_OutsideDomainFaults ==
    [][OutsideDomain => (Faulted' /\ Len(stack') <= Len(stack) /\ stdout' = stdout)]_vars
\* `print 1 + true;` was stopped by the panic of the Add.
C15_Witness ==
    /\ P.name = "addbool"
    /\ status = "panic"
    /\ InBounds
    /\ Cur.op = "Add"
    /\ Len(stack) = 2
    /\ ~BothNumbers(Lhs, Rhs)
    /\ stdout = <<>>

(***************************************************************************)
(* C16.  Eq applied to two values of different variants is a runtime       *)
(* fault: the step of an Eq whose operands differ in variant ends in a     *)
(* fault and does not push Bool(false).                                    *)
(***************************************************************************)
C16_EqMixedFaults ==
    [][(Fetch("Eq") /\ Len(stack) >= 2 /\ Lhs.t # Rhs.t) => Faulted']_vars

(***************************************************************************)
(* C17.  The VM never fetches an instruction at an index outside the       *)
(* loaded bytecode: whenever the loop is about to fetch, ip is less than   *)
(* the bytecode's length (a jump out of range has ended the run instead).  *)
(***************************************************************************)
C17_FetchInsideBytecode == status = "running" => InBounds

(***************************************************************************)
(* Vocabulary of the compile-time rejections: what a source program is,    *)
(* read off its AST in source order.                                       *)
(***************************************************************************)
RECURSIVE FnNames(_)
RECURSIVE FnNamesOfBody(_, _)
\* The names of the functions a statement defines.
FnNames(st) ==
    CASE st.k = "Fn" -> {st.name} \cup FnNames(st.body)
      [] st.k = "Block" -> FnNamesOfBody(st.body, 1)
      [] st.k = "If" -> FnNames(st.if_branch) \cup FnNames(st.else_branch)
      [] OTHER -> {}
FnNamesOfBody(body, i) ==
    IF i > Len(body) THEN {} ELSE FnNames(body[i]) \cup FnNamesOfBody(body, i + 1)

RECURSIVE CallsUnknown(_, _)
\* Expression e calls a function whose name is not among defs.
CallsUnknown(e, defs) ==
    CASE e.k = "Call" ->
             \/ e.variable \notin defs
             \/ \E i \in 1 .. Len(e.arguments) : CallsUnknown(e.arguments[i], defs)
      [] e.k = "Binary" -> CallsUnknown(e.lhs, defs) \/ CallsUnknown(e.rhs, defs)
      [] e.k = "Assign" -> CallsUnknown(e.rhs, defs)
      [] OTHER -> FALSE

RECURSIVE UnknownCallee(_, _)
RECURSIVE UnknownCalleeInBody(_, _, _)
\* Statement st, read with the functions defs defined before it, holds a
\* call of a function that is not defined at that point of the source.  A
\* function's own name is defined inside its body.
UnknownCallee(st, defs) ==
    CASE st.k = "Fn" -> UnknownCallee(st.body, defs \cup {st.name})
      [] st.k = "Block" -> UnknownCalleeInBody(st.body, defs, 1)
      [] st.k = "If" ->
             \/ CallsUnknown(st.condition, defs)
             \/ UnknownCallee(st.if_branch, defs)
             \/ UnknownCallee(st.else_branch, defs \cup FnNames(st.if_branch))
      [] st.k \in {"Print", "Expression", "Return"} -> CallsUnknown(st.expression, defs)
      [] OTHER -> FALSE
UnknownCalleeInBody(body, defs, i) ==
    /\ i <= Len(body)
    /\ \/ UnknownCallee(body[i], defs)
       \/ UnknownCalleeInBody(body, defs \cup FnNames(body[i]), i + 1)

\* The compiler rejected the program: it panicked and returned no bytecode.
Rejected == status = "panic" /\ compiled = <<>> /\ bytecode = <<>>

(***************************************************************************)
(* C18.  A call whose callee is not in the function table at that point of *)
(* the pass (never defined, or defined only later) is a fatal compile-time *)
(* rejection: no bytecode is produced.  A call of the enclosing function   *)
(* from inside its own body is not rejected: the fib program compiles, and *)
(* its body holds an Invoke.                                               *)
(***************************************************************************)
C18_UnknownCalleeRejected ==
    /\ (P.kind = "source" /\ status # "source" /\ UnknownCalleeInBody(P.ast, {}, 1))
           => Rejected
    /\ (P.name = "fib" /\ status # "source")
           => /\ ~Rejected
              /\ \E i \in 1 .. Len(compiled) :
                     compiled[i].op = "Invoke" /\ InFunctionBody(i - 1)
\* `print g(); fn g(,) { return 1; }` was rejected.
C18_Witness == P.name = "latefn" /\ UnknownCalleeInBody(P.ast, {}, 1) /\ Rejected

(***************************************************************************)
(* C19.  A variable reference to a name that is not in the locals list is  *)
(* a compile-time error: the programs that read the never declared y are   *)
(* rejected, with no Deepget emitted for the read.                         *)
(***************************************************************************)
C19_UndeclaredReadRejected ==
    (P.name \in {"undeclared", "undeclaredfn"} /\ status # "source") => Rejected

(***************************************************************************)
(* C20.  A return statement at top level is rejected by the compiler, so   *)
(* that in a compiled program no Ret executes with an empty frame-pointer  *)
(* stack.                                                                  *)
(***************************************************************************)
\* A statement of the top level is a return.
TopLevelReturn(ast) == \E i \in 1 .. Len(ast) : ast[i].k = "Return"
C20_TopLevelReturnRejected ==
    /\ (P.kind = "source" /\ status # "source" /\ TopLevelReturn(P.ast)) => Rejected
    /\ (P.kind = "source" /\ Fetch("Ret")) => frame_ptrs # <<>>

(***************************************************************************)
(* C22.  For every value x that is a Number other than NaN, a Bool or      *)
(* Null, `x == x` evaluates to true and `x != x` to false: the program     *)
(* `print x == x; print x != x;` prints true and then false.               *)
(***************************************************************************)
SelfEqual == stdout = <<ObjBool(TRUE), ObjBool(FALSE)>>
C22_EqReflexive ==
    (P.name \in {"eqselfnum", "eqselfbool", "eqselfnull"} /\ Finished)
        => (status = "halted" /\ SelfEqual)
\* The same for every Number, the NaN that 0 / 0 evaluates to included.
C22_EqReflexiveAnyNumber ==
    (P.name \in {"eqselfnum", "eqselfbool", "eqselfnull", "eqselfnan"} /\ Finished)
        => (status = "halted" /\ SelfEqual)
\* The program was run for the Number 1.
C22_Witness ==
    /\ P.name = "eqselfnum"
    /\ P.a = 1
    /\ status = "halted"
    /\ SelfEqual

C23_NotNot ==
    /\ (P.name = "notnot" /\ status = "running" /\ ip \in {3 + P.a, 5 + P.a})
           => stack = <<ObjNumber(7), ObjNull, ObjBool(P.a = 1)>>
    /\ (P.name = "notnot" /\ Finished)
           => (status = "halted" /\ stdout = <<ObjBool(P.a = 1)>>)
\* Not was executed twice on true.
C23_Witness ==
    /\ P.name = "notnot"
    /\ P.a = 1
    /\ status = "running"
    /\ ip = 6
    /\ Top = ObjBool(TRUE)

(***************************************************************************)
(* C24.  Deepget(s) and Deepset(s) address operand-stack index             *)
(* frame_base + s - 1 (frame_base the top frame pointer, 0 at top level):  *)
(* a Deepget(s) pushes a copy of the value at that index, a Deepset(s)     *)
(* pops the top into that index.                                           *)
(***************************************************************************)
SlotIndex(s) == FrameBase + s - 1
C24_SlotAddressing ==
    [][/\ (Fetch("Deepget") /\ InStack(SlotIndex(Cur.a)))
              => stack' = Append(stack, stack[SlotIndex(Cur.a) + 1])
       /\ (Fetch("Deepset") /\ InStack(SlotIndex(Cur.a)) /\ SlotIndex(Cur.a) < Len(stack) - 1)
              => stack' = [Pop1 EXCEPT ![SlotIndex(Cur.a) + 1] = Top]]_vars

(***************************************************************************)
(* C25.  Executing Invoke(n, entry) with L values on the operand stack     *)
(* pushes exactly one frame-pointer entry, whose frame base is L - n, and  *)
(* the next instruction executed is the one at index entry + 1.            *)
(***************************************************************************)
C25_InvokeEntersCallee ==
    [][(Fetch("Invoke") /\ Len(stack) >= Cur.a)
           => /\ Len(frame_ptrs') = Len(frame_ptrs) + 1
              /\ frame_ptrs'[Len(frame_ptrs')].location = Len(stack) - Cur.a
              /\ status' = "running"
              /\ ip' = Cur.b + 1]_vars

(***************************************************************************)
(* C26.  After a Ret the top frame-pointer entry has been popped and the   *)
(* next instruction executed is the one immediately following the Invoke   *)
(* that pushed the entry: the instruction before the new ip is an Invoke.  *)
(***************************************************************************)
C26_RetResumesAfterInvoke ==
    [][(Fetch("Ret") /\ frame_ptrs # <<>>)
           => /\ Len(frame_ptrs') = Len(frame_ptrs) - 1
              /\ status' = "running"
              /\ ip' >= 1
              /\ ip' <= Len(bytecode)
              /\ bytecode[ip'].op = "Invoke"]_vars

(***************************************************************************)
(* C27.  The number of Pops emitted at a block's exit equals the number of *)
(* variables declared directly in the block, also when an earlier sibling  *)
(* block at the same depth declared variables: `{ x = 1; } { y = 2; }`     *)
(* compiles to one declaration and one Pop per block.                      *)
(***************************************************************************)
C27_BlockPops ==
    (P.name = "siblings" /\ Compiled)
        => compiled = <<Const(1), Nullary("Pop"), Const(2), Nullary("Pop")>>

(***************************************************************************)
(* C28.  At every return of a function body the compiler's locals count k  *)
(* equals the number of values the frame holds at run time, so that the k  *)
(* Deepsets of the return sequence collapse exactly the live frame.  In    *)
(* `fn f(,) { { x = 1; } return 2; }` the frame holds no value at the      *)
(* return (f has no parameter and x was popped at its block's exit): the   *)
(* return sequence has no Deepset.                                         *)
(***************************************************************************)
C28_ReturnCollapsesLiveFrame ==
    (P.name = "blockret" /\ Compiled)
        => \A i \in 1 .. Len(compiled) : compiled[i].op # "Deepset"

(***************************************************************************)
(* C29.  Across a call every operand-stack value below the call's first    *)
(* argument is unchanged.  In `x = A; fn f(,) { return 0; } f(); print 1;` *)
(* the value of x lies below the frame of f(): while the frame pointer of  *)
(* the call is on the frame-pointer stack, index 0 of the operand stack    *)
(* holds A.                                                                *)
(***************************************************************************)
C29_CallerStackPreserved ==
    (P.name = "belowcall" /\ frame_ptrs # <<>>)
        => (Len(stack) >= 1 /\ stack[1] = ObjNumber(P.a))

(***************************************************************************)
(* C30.  In a function body the i-th parameter resolves to slot i and the  *)
(* first body-declared variable to slot n + 1, whatever was declared at    *)
(* top level before: in `x = 5; fn f(a,) { b = a; return b; } print f(7);` *)
(* the read of a is Deepget(1) and the read of b is Deepget(2).            *)
(***************************************************************************)
C30_ParameterSlots ==
    (P.name = "topthenfn" /\ Compiled)
        => SelectSeq(compiled, LAMBDA o : o.op = "Deepget") = <<Deepget(1), Deepget(2)>>

(***************************************************************************)
(* C31.  A call of a function whose body runs to its end without a return  *)
(* evaluates to Null, and the Pops before the implicit Null, Ret remove    *)
(* exactly the function's arguments and body-declared variables, whatever  *)
(* was declared at top level before: `fn h(,) { } print h();` prints null, *)
(* and `x = 5; fn h(a,) { b = 1; } print h(7);` holds two Pops, for a and  *)
(* for b.                                                                  *)
(***************************************************************************)
C31_ImplicitReturn ==
    /\ (P.name = "noret" /\ Finished) => (status = "halted" /\ stdout = <<ObjNull>>)
    /\ (P.name = "noretargs" /\ Compiled)
           => Len(SelectSeq(compiled, LAMBDA o : o.op = "Pop")) = 2

(***************************************************************************)
(* C32.  For every Invoke(n, entry) the compiler emits, n is the number of *)
(* parameters of the function registered at entry: a call with another     *)
(* number of arguments is not compiled into an Invoke.                     *)
(***************************************************************************)
C32_InvokeArity ==
    Compiled =>
        \A i \in 1 .. Len(compiled) :
            compiled[i].op = "Invoke"
                => \E j \in 1 .. Len(P.ast) :
                       /\ P.ast[j].k = "Fn"
                       /\ functions_get(compile(P.ast).functions, P.ast[j].name)
                              = compiled[i].b
                       /\ Len(P.ast[j].arguments) = compiled[i].a

(***************************************************************************)
(* C33.  The code of an expression has a net operand-stack effect of +1,   *)
(* also for an assignment to a declared variable used as a print operand:  *)
(* in `x = 1; print x = 2;` the stack holds one value, x, before the       *)
(* operand of print is evaluated, and two when Print is about to execute.  *)
(***************************************************************************)
C33_ExpressionPushesOne ==
    /\ (P.name = "printassign" /\ status = "running" /\ ip = 1) => Len(stack) = 1
    /\ (P.name = "printassign" /\ Fetch("Print")) => Len(stack) = 2

(***************************************************************************)
(* C34.  An assignment statement to a declared variable leaves the length  *)
(* of the operand stack unchanged and sets the variable's slot to the      *)
(* value of the right-hand side: after the second statement of             *)
(* `x = A; x = B; print x;` the stack holds B in the slot of x.            *)
(***************************************************************************)
C34_AssignmentWritesSlot ==
    (P.name = "assign" /\ status = "running" /\ ip = 3) => stack = <<ObjNumber(P.b)>>

(***************************************************************************)
(* C35.  When sequential execution reaches a function definition, the      *)
(* header Jmp leaves both stacks unchanged and continues at the first      *)
(* instruction after the definition's trailing Null, Ret: no instruction   *)
(* of the body is executed by that step.                                   *)
(***************************************************************************)
C35_DefinitionSkipped ==
    [][(Fetch("Jmp") /\ P.kind = "source" /\ IsFunctionHeader(compiled, ip))
          => /\ stack' = stack
             /\ frame_ptrs' = frame_ptrs
             /\ stdout' = stdout
             /\ status' = "running"
             /\ bytecode[Cur.a].op = "Null"
             /\ bytecode[Cur.a + 1].op = "Ret"
             /\ ip' = Cur.a + 1
             /\ ~InFunctionBody(ip')]_vars
\* The definition of id has been skipped: execution stands at the first
\* instruction after its Null, Ret with nothing on either stack.
C35_Witness ==
    /\ P.name = "id"
    /\ status = "running"
    /\ ip = 7
    /\ bytecode[6].op = "Null" /\ bytecode[7].op = "Ret"
    /\ stack = <<>>
    /\ frame_ptrs = <<>>
    /\ stdout = <<>>

(***************************************************************************)
(* C36.  Invoke leaves the operand stack unchanged: the return address and *)
(* the frame base are recorded on frame_ptrs only, as one entry holding    *)
(* the index after the Invoke and the stack length minus n.                *)
(***************************************************************************)
C36_InvokeKeepsOperands ==
    [][Fetch("Invoke")
          => /\ stack' = stack
             /\ status' = "running"
                    => frame_ptrs' = Append(frame_ptrs,
                           [ptr |-> ip + 1, location |-> Len(stack) - Cur.a])]_vars
\* The Invoke of `print id(42);` has executed: the argument is still the
\* only operand, and frame_ptrs holds the one entry.
C36_Witness ==
    /\ P.name = "id"
    /\ status = "running"
    /\ ip = 9
    /\ bytecode[9].op = "Invoke"
    /\ stack = <<ObjNumber(42)>>
    /\ frame_ptrs = <<[ptr |-> 9, location |-> 0]>>

RECURSIVE Calls(_, _)
\* Expression e holds a call of the function name.
Calls(e, name) ==
    CASE e.k = "Call" ->
             \/ e.variable = name
             \/ \E i \in 1 .. Len(e.arguments) : Calls(e.arguments[i], name)
      [] e.k = "Binary" -> Calls(e.lhs, name) \/ Calls(e.rhs, name)
      [] e.k = "Assign" -> Calls(e.rhs, name)
      [] OTHER -> FALSE
RECURSIVE CallsInStatement(_, _)
\* Statement st holds a call of the function name.
CallsInStatement(st, name) ==
    CASE st.k = "Fn" -> CallsInStatement(st.body, name)
      [] st.k = "Block" ->
             \E i \in 1 .. Len(st.body) : CallsInStatement(st.body[i], name)
      [] st.k = "If" ->
             \/ Calls(st.condition, name)
             \/ CallsInStatement(st.if_branch, name)
             \/ CallsInStatement(st.else_branch, name)
      [] st.k \in {"Print", "Expression", "Return"} -> Calls(st.expression, name)
      [] OTHER -> FALSE
RECURSIVE SelfCalling(_)
\* Statement st holds a function whose body calls that function.
SelfCalling(st) ==
    CASE st.k = "Fn" -> CallsInStatement(st.body, st.name) \/ SelfCalling(st.body)
      [] st.k = "Block" -> \E i \in 1 .. Len(st.body) : SelfCalling(st.body[i])
      [] st.k = "If" -> SelfCalling(st.if_branch) \/ SelfCalling(st.else_branch)
      [] OTHER -> FALSE
\* No function of the program calls itself.
NoSelfCall == \A i \in 1 .. Len(P.ast) : ~SelfCalling(P.ast[i])

(***************************************************************************)
(* C37.  Every Jmp and Jz the compiler emits continues at an index greater *)
(* than its own (operand + 1 after the loop's increment), and every        *)
(* compiled program in which no function calls itself, once loaded, ends   *)
(* its run after finitely many steps.                                      *)
(***************************************************************************)
C37_ForwardJumpsHalt ==
    /\ [](Compiled =>
             \A i \in 1 .. Len(compiled) :
                 compiled[i].op \in {"Jmp", "Jz"} => compiled[i].a + 1 > i - 1)
    /\ ((Compiled /\ NoSelfCall /\ bytecode # <<>>) ~> Finished)
\* The if program has taken its branch, jumped over the else branch and
\* halted.
C37_Witness ==
    /\ P.name = "if"
    /\ P.a < P.b
    /\ NoSelfCall
    /\ \E i \in 1 .. Len(compiled) : compiled[i].op = "Jmp" /\ compiled[i].a + 1 > i - 1
    /\ status = "halted"
    /\ stdout = <<ObjNumber(10)>>

(***************************************************************************)
(* C38.  The run of a compiled program halts normally exactly when ip      *)
(* reaches the index equal to the length of the compiled program, where    *)
(* load has put EndOfProgram: a halted run stands at that index, a run     *)
(* standing at that index halts with its next step and changes nothing     *)
(* else, and no step follows the halt.  A program that ends with a         *)
(* function definition or an if statement, whose last jump continues at    *)
(* that index, halts normally, and the empty program halts at once.        *)
(***************************************************************************)
C38_HaltAtEndOfProgram ==
    /\ []((P.kind = "source" /\ status = "halted") => ip = Len(compiled))
    /\ []((P.name \in {"fnlast", "if", "empty"} /\ Finished) => status = "halted")
    /\ []((P.name = "empty" /\ status = "running") => ip = Len(compiled))
    /\ [][(P.kind = "source" /\ status = "running" /\ ip = Len(compiled))
              => /\ status' = "halted"
                 /\ UNCHANGED <<program, debug, compiled, bytecode, stack,
                                frame_ptrs, ip, stdout>>]_vars
    /\ [][status # "halted"]_vars
\* `print 1; fn f(,) { }` has printed, jumped over the definition to the
\* index after its Ret, the length of the compiled program, and halted.
C38_Witness ==
    /\ P.name = "fnlast"
    /\ status = "halted"
    /\ compiled[Len(compiled)].op = "Ret"
    /\ bytecode[Len(bytecode)].op = "EndOfProgram"
    /\ ip = Len(compiled)
    /\ stdout = <<ObjNumber(1)>>

====
